---- MODULE Spec2Model ----
(***************************************************************************)
(* Gitto (src/gitto.py): a minimal version-control engine.                 *)
(*                                                                         *)
(* The model is the repository on disk (.gitto/objects, .gitto/index,      *)
(* .gitto/HEAD), the working tree next to it, and whether the last command  *)
(* ended in an exception nothing catches.  One action per command of class *)
(* VCS, plus the user's edits of the working tree.  Each command is an     *)
(* operator from the disk and its arguments to the disk it leaves and the  *)
(* messages it prints; the action applies it.  Every command runs from the *)
(* repository root on a flat working tree, so os.path.relpath maps each    *)
(* path to itself and get_untracked_files' open(file) opens the file it    *)
(* names.                                                                  *)
(***************************************************************************)
EXTENDS Integers, Sequences, FiniteSets, TLC

\* Bounds of the exploration.
MaxCommits == 2     \* commits made in one behaviour

\* Finite universes the inputs are drawn from.
Paths == {1, 2}          \* file names of the working tree
Lines == {1, 2}          \* distinct lines of text
Texts == {<<l>> : l \in Lines}   \* file contents: sequences of lines
Messages == {1}          \* commit messages
ArgLens == {1, 2}        \* how many paths one add / unstage / restore is given
DOT == 0                 \* the path "."
None == 0                \* Python None, JSON null, the empty HEAD file
NoData == <<>>           \* get_commit_data's None (a falsy text)
MissingHash == -1        \* a digest the object store never holds

VARIABLES
    repo,       \* TRUE once .gitto/objects exists
    worktree,   \* path -> text, for the files that exist
    objects,    \* .gitto/objects: digest -> text
    index,      \* .gitto/index: path -> digest
    HEAD,       \* .gitto/HEAD: digest of the latest commit, or None
    commits,    \* how many commits have been created; the clock commit() reads
    fault,      \* TRUE when the last command ended in an unhandled exception
    pc,         \* process -> the file access its command makes next, or "idle"
    local,      \* process -> the values its command holds in memory
    overlapped, \* TRUE once a command started while another was running
    lost        \* TRUE once an index write dropped an entry written meanwhile

\* The state of the processes of the interleaved specification; the commands
\* of the one-process specification run to completion and leave it alone.
procs == <<pc, local, overlapped, lost>>

vars == <<repo, worktree, objects, index, HEAD, commits, fault, procs>>

------------------------------------------------------------------------------
\* Finite maps (Python dicts, directories of files).

EmptyMap == [x \in {} |-> None]

Put(f, k, v) == [x \in (DOMAIN f) \cup {k} |-> IF x = k THEN v ELSE f[x]]

Remove(f, k) == [x \in (DOMAIN f) \ {k} |-> f[x]]

Range(s) == {s[i] : i \in DOMAIN s}

RECURSIVE SetToSeq(_)
SetToSeq(S) ==
    IF S = {} THEN <<>>
    ELSE LET m == CHOOSE x \in S : \A y \in S : x <= y
         IN <<m>> \o SetToSeq(S \ {m})

RECURSIVE Pow(_, _)
Pow(b, n) == IF n = 0 THEN 1 ELSE b * Pow(b, n - 1)

------------------------------------------------------------------------------
\* Serialisation of a commit and the digest function.

NPaths == Cardinality(Paths)
BlobBase == Cardinality(Lines) + 1
BlobLimit == BlobBase       \* digests of one-line texts are 1 .. BlobLimit-1
TimeBase == MaxCommits + 1
MsgBase == Cardinality(Messages) + 1
CommitRadix == TimeBase * MsgBase * Pow(BlobLimit, NPaths)

\* json.dumps(commit_json): "{", timestamp, message, parent, then one slot per
\* path holding its digest, or null when the path is not a key of "files".
json_dumps(c) ==
    <<0, c.timestamp, c.message, c.parent>>
        \o [i \in 1..NPaths |-> IF i \in DOMAIN c.files THEN c.files[i] ELSE None]

\* Whether json.loads accepts the text as a commit record.
IsJson(content) == Len(content) = 4 + NPaths /\ content[1] = 0

json_loads(content) ==
    [timestamp |-> content[2],
     message   |-> content[3],
     parent    |-> content[4],
     files     |-> [p \in {i \in 1..NPaths : content[4 + i] # None}
                        |-> content[4 + p]]]

RECURSIVE text_code(_)
text_code(s) ==
    IF s = <<>> THEN 0 ELSE text_code(SubSeq(s, 1, Len(s) - 1)) * BlobBase + s[Len(s)]

RECURSIVE files_code(_, _)
files_code(j, i) ==
    IF i > NPaths THEN 0 ELSE j[4 + i] + BlobLimit * files_code(j, i + 1)

\* hashlib.sha1(content).hexdigest(): a function of the content alone and
\* collision-free on the texts the model writes (file texts, and commit
\* records whose files are blob digests and whose parent is a commit digest).
generate_hash(content) ==
    IF IsJson(content)
    THEN BlobLimit
         + content[2] + TimeBase * (content[3] + MsgBase * files_code(content, 1))
         + CommitRadix * (IF content[4] = None THEN 0 ELSE content[4] - BlobLimit + 1)
    ELSE text_code(content)

------------------------------------------------------------------------------
\* Readers of the repository.

\* get_current_head as it would be if it took every HEAD file for an empty one.
get_current_head_empty(head) == None

get_current_head(head) == head

get_commit_data(objs, commit_hash) ==
    IF commit_hash \in DOMAIN objs THEN objs[commit_hash] ELSE NoData

get_staged_files(idx) == DOMAIN idx

\* The "files" of the commit HEAD names; empty without a HEAD or a commit.
committed_data_files(objs, head) ==
    IF head # None /\ get_commit_data(objs, head) # NoData
                   /\ IsJson(get_commit_data(objs, head))
    THEN json_loads(get_commit_data(objs, head)).files
    ELSE EmptyMap

\* get_tracked_files as it would be without its second loop, over the staged
\* files.
get_tracked_files_skips_staged(wt, objs, idx, head, staged_files) ==
    LET files == committed_data_files(objs, head)
        tracked_files == (DOMAIN files) \ staged_files
    IN [fault |-> \/ (head # None /\ get_commit_data(objs, head) # NoData
                                  /\ ~IsJson(get_commit_data(objs, head)))
                  \/ \E p \in tracked_files : p \notin DOMAIN wt,
        tracked_files |-> tracked_files,
        tracked_files_with_changes |->
            {p \in tracked_files \cap DOMAIN wt : generate_hash(wt[p]) # files[p]}]

\* fault: an open() of a file that is gone, or json.loads of a text that is
\* no commit, raises out of the function.
get_tracked_files(wt, objs, idx, head, staged_files) ==
    LET files == committed_data_files(objs, head)
        tracked_files == (DOMAIN files) \ staged_files
        unstaged_changes ==
            {p \in tracked_files \cap DOMAIN wt : generate_hash(wt[p]) # files[p]}
        staged_changes ==
            {p \in (staged_files \ tracked_files) \cap DOMAIN wt :
                generate_hash(wt[p]) # idx[p]}
    IN [fault |-> \/ (head # None /\ get_commit_data(objs, head) # NoData
                                  /\ ~IsJson(get_commit_data(objs, head)))
                  \/ \E p \in tracked_files : p \notin DOMAIN wt
                  \/ \E p \in staged_files \ tracked_files : p \notin DOMAIN wt,
        tracked_files |-> tracked_files,
        tracked_files_with_changes |-> unstaged_changes \cup staged_changes]

\* get_untracked_files as it would be without the test on tracked_files.
get_untracked_files_ignores_tracked(wt, objs, staged_files, tracked_files) ==
    {p \in DOMAIN wt :
        /\ p \notin staged_files
        /\ generate_hash(wt[p]) \notin DOMAIN objs}

get_untracked_files(wt, objs, staged_files, tracked_files) ==
    {p \in DOMAIN wt :
        /\ p \notin staged_files
        /\ p \notin tracked_files
        /\ generate_hash(wt[p]) \notin DOMAIN objs}

get_file_content(objs, file_hash) == objs[file_hash]

------------------------------------------------------------------------------
ArgLists == UNION {[1..n -> Paths \cup {DOT}] : n \in ArgLens}

Procs == {1, 2}          \* the processes of the interleaved specification

\* The locals of a process that runs no command.
NoLocals ==
    [path |-> 0, file_hash |-> 0, index |-> EmptyMap, commit_text |-> NoData]

Init ==
    /\ repo = FALSE
    /\ worktree = EmptyMap
    /\ objects = EmptyMap
    /\ index = EmptyMap
    /\ HEAD = None
    /\ commits = 0
    /\ fault = FALSE
    /\ pc = [self \in Procs |-> "idle"]
    /\ local = [self \in Procs |-> NoLocals]
    /\ overlapped = FALSE
    /\ lost = FALSE

\* The user creates or rewrites a file of the working tree.
WriteFile(p, text) ==
    /\ worktree' = Put(worktree, p, text)
    /\ UNCHANGED <<repo, objects, index, HEAD, commits, fault, procs>>

\* The user deletes a file of the working tree.
DeleteFile(p) ==
    /\ p \in DOMAIN worktree
    /\ worktree' = Remove(worktree, p)
    /\ UNCHANGED <<repo, objects, index, HEAD, commits, fault, procs>>

------------------------------------------------------------------------------
\* init

\* init() as it would be if it wrote HEAD without the os.path.exists test and
\* before makedirs: a repeated init empties HEAD.
init_result_truncates_head(initialized, idx, head) ==
    IF initialized
    THEN [repo |-> TRUE, index |-> idx, HEAD |-> None,
          msgs |-> {<<"already initialized", 0>>}]
    ELSE [repo |-> TRUE, index |-> EmptyMap, HEAD |-> None,
          msgs |-> {<<"Initialized", 0>>}]

\* init() as it would be if it wrote the index file without the
\* os.path.exists test and before makedirs: a repeated init empties the index.
init_result_resets_index(initialized, idx, head) ==
    IF initialized
    THEN [repo |-> TRUE, index |-> EmptyMap, HEAD |-> head,
          msgs |-> {<<"already initialized", 0>>}]
    ELSE [repo |-> TRUE, index |-> EmptyMap, HEAD |-> None,
          msgs |-> {<<"Initialized", 0>>}]

\* What init() leaves and prints: makedirs raises when .gitto/objects exists.
init_result(initialized, idx, head) ==
    IF initialized
    THEN [repo |-> TRUE, index |-> idx, HEAD |-> head,
          msgs |-> {<<"already initialized", 0>>}]
    ELSE [repo |-> TRUE, index |-> EmptyMap, HEAD |-> None,
          msgs |-> {<<"Initialized", 0>>}]

init ==
    /\ LET r == init_result(repo, index, HEAD)
       IN /\ repo' = r.repo
          /\ index' = r.index
          /\ HEAD' = r.HEAD
    /\ fault' = FALSE
    /\ UNCHANGED <<worktree, objects, commits, procs>>

------------------------------------------------------------------------------
\* add

\* append_to_staging_area as it would be if it wrote a fresh index holding only
\* the new entry instead of reading the index file first.
append_to_staging_area_replaces(idx, file_path, file_hash) ==
    Put(EmptyMap, file_path, file_hash)

append_to_staging_area(idx, file_path, file_hash) == Put(idx, file_path, file_hash)

\* add_file as it would be if it recorded the digest in the index without
\* writing the blob to the object store.
add_file_skips_object(wt, objs, idx, file_path) ==
    [objects |-> objs,
     index |-> append_to_staging_area(idx, file_path, generate_hash(wt[file_path]))]

\* The object store and the index after add_file(file_path).
add_file(wt, objs, idx, file_path) ==
    LET file_data == wt[file_path]
        file_hash == generate_hash(file_data)
    IN [objects |-> Put(objs, file_hash, file_data),
        index   |-> append_to_staging_area(idx, file_path, file_hash)]

RECURSIVE add_files(_, _, _, _)
add_files(wt, objs, idx, todo) ==
    IF todo = <<>> THEN [objects |-> objs, index |-> idx]
    ELSE LET d == add_file(wt, objs, idx, Head(todo))
         IN add_files(wt, d.objects, d.index, Tail(todo))

\* add() as it would be if an unmatched path were reported without returning:
\* the paths that can be staged are staged all the same.
add_result_keeps_going(wt, objs, idx, head, paths) ==
    LET staged_files == get_staged_files(idx)
        t == get_tracked_files(wt, objs, idx, head, staged_files)
        untracked_files == get_untracked_files(wt, objs, staged_files, t.tracked_files)
        unmatched ==
            {i \in DOMAIN paths :
                /\ paths[i] # DOT
                /\ paths[i] \notin staged_files
                /\ paths[i] \notin t.tracked_files
                /\ paths[i] \notin untracked_files}
        todo ==
            IF DOT \in Range(paths)
            THEN SetToSeq(t.tracked_files_with_changes) \o SetToSeq(untracked_files)
            ELSE SelectSeq(paths,
                     LAMBDA p : p \in t.tracked_files_with_changes \cup untracked_files)
        d == add_files(wt, objs, idx, todo)
    IN IF t.fault
       THEN [fault |-> TRUE, objects |-> objs, index |-> idx, msgs |-> {}]
       ELSE [fault |-> FALSE, objects |-> d.objects, index |-> d.index,
             msgs |-> {<<"did not match any files", paths[i]>> : i \in unmatched}
                      \cup {<<"added to staging area", p>> : p \in Range(todo)}]

\* What add(paths) leaves and prints.  The three sets are computed once, before
\* the first add_file.
add_result(wt, objs, idx, head, paths) ==
    LET staged_files == get_staged_files(idx)
        t == get_tracked_files(wt, objs, idx, head, staged_files)
        tracked_files == t.tracked_files
        tracked_files_with_changes == t.tracked_files_with_changes
        untracked_files == get_untracked_files(wt, objs, staged_files, tracked_files)
        addAll == DOT \in Range(paths)
        unmatched ==
            {i \in DOMAIN paths :
                /\ paths[i] # DOT
                /\ paths[i] \notin staged_files
                /\ paths[i] \notin tracked_files
                /\ paths[i] \notin untracked_files}
        todo ==
            IF addAll
            THEN SetToSeq(tracked_files_with_changes) \o SetToSeq(untracked_files)
            ELSE SelectSeq(paths,
                     LAMBDA p : p \in tracked_files_with_changes \cup untracked_files)
        d == add_files(wt, objs, idx, todo)
    IN IF t.fault
       THEN [fault |-> TRUE, objects |-> objs, index |-> idx, msgs |-> {}]
       ELSE IF unmatched # {}
       THEN [fault |-> FALSE, objects |-> objs, index |-> idx,
             msgs |-> {<<"did not match any files",
                         paths[CHOOSE i \in unmatched : \A j \in unmatched : i <= j]>>}]
       ELSE [fault |-> FALSE, objects |-> d.objects, index |-> d.index,
             msgs |-> {<<"added to staging area", p>> : p \in Range(todo)}
                      \cup (IF addAll THEN {}
                            ELSE {<<"already added to staging area", p>> :
                                     p \in Range(paths) \ Range(todo)})]

add(paths) ==
    /\ repo
    /\ LET r == add_result(worktree, objects, index, HEAD, paths)
       IN /\ objects' = r.objects
          /\ index' = r.index
          /\ fault' = r.fault
    /\ UNCHANGED <<repo, worktree, HEAD, commits, procs>>

------------------------------------------------------------------------------
\* unstage (restore --staged)

\* unstage_file as it would be if it dumped an empty index instead of the
\* index without the path.
unstage_file_clears_index(idx, file_path) ==
    IF file_path \in DOMAIN idx
    THEN [index |-> EmptyMap, msg |-> <<"unstaged", file_path>>]
    ELSE [index |-> idx, msg |-> <<"is not in the staging area", file_path>>]

\* The index after unstage_file(file_path), and what it printed.
unstage_file(idx, file_path) ==
    IF file_path \in DOMAIN idx
    THEN [index |-> Remove(idx, file_path), msg |-> <<"unstaged", file_path>>]
    ELSE [index |-> idx, msg |-> <<"is not in the staging area", file_path>>]

RECURSIVE unstage_paths(_, _, _, _)
unstage_paths(staged_files, idx, msgs, todo) ==
    IF todo = <<>> THEN [index |-> idx, msgs |-> msgs]
    ELSE IF Head(todo) \in staged_files
    THEN LET u == unstage_file(idx, Head(todo))
         IN unstage_paths(staged_files, u.index, msgs \cup {u.msg}, Tail(todo))
    ELSE unstage_paths(staged_files, idx,
                       msgs \cup {<<"is not in the staging area", Head(todo)>>},
                       Tail(todo))

\* What unstage(paths) leaves and prints.
unstage_result(idx, paths) == unstage_paths(get_staged_files(idx), idx, {}, paths)

unstage(paths) ==
    /\ repo
    /\ index' = unstage_result(index, paths).index
    /\ fault' = FALSE
    /\ UNCHANGED <<repo, worktree, objects, HEAD, commits, procs>>

------------------------------------------------------------------------------
\* restore

\* The working tree after restore_file(path), and what it printed.  Without a
\* HEAD, get_commit_data joins the objects path with None, which raises.
restore_file(wt, objs, head, path) ==
    LET files == committed_data_files(objs, head)
    IN IF get_current_head(head) = None
       THEN [fault |-> TRUE, worktree |-> wt, msgs |-> {}]
       ELSE IF path \in DOMAIN files
       THEN [fault |-> FALSE,
             worktree |-> Put(wt, path, get_file_content(objs, files[path])),
             msgs |-> {<<"restored to last commit version", path>>}]
       ELSE [fault |-> FALSE, worktree |-> wt, msgs |-> {}]

RECURSIVE restore_paths(_, _, _, _, _, _)
restore_paths(t, wt, objs, head, msgs, todo) ==
    IF todo = <<>> THEN [fault |-> FALSE, worktree |-> wt, msgs |-> msgs]
    ELSE LET path == Head(todo)
         IN IF path \in t.tracked_files_with_changes
            THEN LET r == restore_file(wt, objs, head, path)
                 IN IF r.fault
                    THEN [fault |-> TRUE, worktree |-> wt, msgs |-> msgs]
                    ELSE restore_paths(t, r.worktree, objs, head,
                                       msgs \cup r.msgs, Tail(todo))
            ELSE IF path \in t.tracked_files
            THEN restore_paths(t, wt, objs, head,
                     msgs \cup {<<"has no changes to be restored", path>>}, Tail(todo))
            ELSE restore_paths(t, wt, objs, head,
                     msgs \cup {<<"is not being tracked", path>>}, Tail(todo))

\* What restore(paths) leaves and prints.
restore_result(wt, objs, idx, head, paths) ==
    LET first == IF get_current_head(head) = None
                 THEN {<<"No commit found", 0>>} ELSE {}
        t == get_tracked_files(wt, objs, idx, head, get_staged_files(idx))
        r == restore_paths(t, wt, objs, head, first, paths)
    IN IF t.fault
       THEN [fault |-> TRUE, worktree |-> wt, msgs |-> first]
       ELSE [fault |-> r.fault, worktree |-> r.worktree, msgs |-> r.msgs]

restore(paths) ==
    /\ repo
    /\ LET r == restore_result(worktree, objects, index, HEAD, paths)
       IN /\ worktree' = r.worktree
          /\ fault' = r.fault
    /\ UNCHANGED <<repo, objects, index, HEAD, commits, procs>>

------------------------------------------------------------------------------
\* commit

update_head(commit_hash) == commit_hash

\* The commit record as it would be if commit() forgot the parent.
commit_record_without_parent(message, now, idx, head) ==
    [timestamp |-> now,
     message   |-> message,
     files     |-> idx,
     parent    |-> None]

\* The record commit() builds from the index and HEAD.
commit_record(message, now, idx, head) ==
    [timestamp |-> now,
     message   |-> message,
     files     |-> idx,
     parent    |-> get_current_head(head)]

\* commit() as it would be if it did not rewrite the index file.
commit_result_keeps_index(objs, idx, head, message, now) ==
    LET commit_json == commit_record(message, now, idx, head)
        commit_hash == generate_hash(json_dumps(commit_json))
    IN [objects |-> Put(objs, commit_hash, json_dumps(commit_json)),
        HEAD    |-> update_head(commit_hash),
        index   |-> idx,
        msgs    |-> {<<"Commit successfully created", commit_hash>>}]

\* commit() as it would be if it removed the blobs the committed index does
\* not refer to.
commit_result_prunes_blobs(objs, idx, head, message, now) ==
    LET commit_json == commit_record(message, now, idx, head)
        commit_hash == generate_hash(json_dumps(commit_json))
        kept == {d \in DOMAIN objs : IsJson(objs[d]) \/ d \in Range(idx)}
    IN [objects |-> Put([d \in kept |-> objs[d]], commit_hash, json_dumps(commit_json)),
        HEAD    |-> update_head(commit_hash),
        index   |-> EmptyMap,
        msgs    |-> {<<"Commit successfully created", commit_hash>>}]

\* What commit(message) leaves and prints.  "if not f" tests the file object,
\* which is never falsy, so no branch depends on the index being empty.
commit_result(objs, idx, head, message, now) ==
    LET commit_json == commit_record(message, now, idx, head)
        commit_hash == generate_hash(json_dumps(commit_json))
    IN [objects |-> Put(objs, commit_hash, json_dumps(commit_json)),
        HEAD    |-> update_head(commit_hash),
        index   |-> EmptyMap,
        msgs    |-> {<<"Commit successfully created", commit_hash>>}]

\* datetime.now() is the logical time `commits`: it advances with every commit.
commit(message) ==
    /\ repo
    /\ commits < MaxCommits
    /\ LET r == commit_result(objects, index, HEAD, message, commits)
       IN /\ objects' = r.objects
          /\ HEAD' = r.HEAD
          /\ index' = r.index
    /\ commits' = commits + 1
    /\ fault' = FALSE
    /\ UNCHANGED <<repo, worktree, procs>>

------------------------------------------------------------------------------
\* log

\* The digests log() prints from `head` on, newest first.  fault: ValueError
\* for a digest without an object, or json.loads of a text that is no commit.
\* `left` counts the objects not visited yet; at 0 the chain has a cycle and the
\* while loop never ends.
RECURSIVE log_from(_, _, _)
log_from(objs, head, left) ==
    IF head = None THEN [fault |-> FALSE, endless |-> FALSE, log |-> <<>>]
    ELSE IF get_commit_data(objs, head) = NoData \/ ~IsJson(get_commit_data(objs, head))
    THEN [fault |-> TRUE, endless |-> FALSE, log |-> <<>>]
    ELSE IF left = 0
    THEN [fault |-> FALSE, endless |-> TRUE, log |-> <<>>]
    ELSE LET rest == log_from(objs, json_loads(get_commit_data(objs, head)).parent,
                              left - 1)
         IN [fault |-> rest.fault, endless |-> rest.endless,
             log |-> <<head>> \o rest.log]

\* What log() prints.
log_result(objs, head) ==
    IF get_current_head(head) = None
    THEN [fault |-> FALSE, endless |-> FALSE, log |-> <<>>,
          msgs |-> {<<"Gitto repository does not have any commits yet", 0>>}]
    ELSE LET l == log_from(objs, head, Cardinality(DOMAIN objs))
         IN [fault |-> l.fault, endless |-> l.endless, log |-> l.log, msgs |-> {}]

log ==
    /\ repo
    /\ ~log_result(objects, HEAD).endless
    /\ fault' = log_result(objects, HEAD).fault
    /\ UNCHANGED <<repo, worktree, objects, index, HEAD, commits, procs>>

------------------------------------------------------------------------------
\* status

\* The four classes of the scanner: staged, tracked (committed and not staged),
\* tracked with changes, untracked.
classify(wt, objs, idx, head) ==
    LET staged_files == get_staged_files(idx)
        t == get_tracked_files(wt, objs, idx, head, staged_files)
    IN [fault |-> t.fault,
        staged_files |-> staged_files,
        tracked_files |-> t.tracked_files,
        tracked_files_with_changes |-> t.tracked_files_with_changes,
        untracked_files |->
            get_untracked_files(wt, objs, staged_files, t.tracked_files)]

\* What status() prints.
status_result(wt, objs, idx, head) ==
    LET c == classify(wt, objs, idx, head)
    IN IF c.fault THEN [fault |-> TRUE, msgs |-> {}]
       ELSE IF c.staged_files = {} /\ c.tracked_files_with_changes = {}
                                   /\ c.untracked_files = {}
       THEN [fault |-> FALSE, msgs |-> {<<"nothing to commit, working tree clean", 0>>}]
       ELSE [fault |-> FALSE,
             msgs |-> {<<"Changes to be committed", p>> : p \in c.staged_files}
                 \cup {<<"Changes not staged for commit", p>> :
                          p \in c.tracked_files_with_changes}
                 \cup {<<"Untracked files", p>> : p \in c.untracked_files}]

status ==
    /\ repo
    /\ fault' = status_result(worktree, objects, index, HEAD).fault
    /\ UNCHANGED <<repo, worktree, objects, index, HEAD, commits, procs>>

------------------------------------------------------------------------------
\* show-diff

\* unified_diff as it would be called with its two texts swapped.
unified_diff_swapped(old, new) ==
    IF old = new THEN <<>>
    ELSE [i \in 1..Len(new) |-> <<"-", new[i]>>] \o [i \in 1..Len(old) |-> <<"+", old[i]>>]

\* difflib.unified_diff on one-line texts: nothing when they are equal, else
\* the old line removed and the new line added.
unified_diff(old, new) ==
    IF old = new THEN <<>>
    ELSE [i \in 1..Len(old) |-> <<"-", old[i]>>] \o [i \in 1..Len(new) |-> <<"+", new[i]>>]

\* What show_commit_diff prints for one file of the commit.
file_diff(objs, files, parent_files, file_path) ==
    {<<"File", file_path>>}
    \cup (IF file_path \in DOMAIN parent_files
          THEN {<<"diff", file_path, line>> :
                   line \in Range(unified_diff(
                       get_file_content(objs, parent_files[file_path]),
                       get_file_content(objs, files[file_path])))}
          ELSE {<<"New file in this commit", file_path>>})

\* What show_commit_diff(commit_hash) prints.  fault: json.loads of a text
\* that is no commit, or get_file_content of a digest without an object.
show_commit_diff_result(objs, commit_hash) ==
    LET commit_data == get_commit_data(objs, commit_hash)
        commit_json == json_loads(commit_data)
        files == commit_json.files
        parent_commit_data == get_commit_data(objs, commit_json.parent)
        parent_files == json_loads(parent_commit_data).files
    IN IF commit_data = NoData
       THEN [fault |-> FALSE, msgs |-> {<<"Commit not found", 0>>}]
       ELSE IF ~IsJson(commit_data)
       THEN [fault |-> TRUE, msgs |-> {}]
       ELSE IF commit_json.parent = None
       THEN [fault |-> FALSE, msgs |-> {<<"First commit", 0>>}]
       ELSE IF files = EmptyMap
       THEN [fault |-> FALSE, msgs |-> {<<"Changes from the last commit", 0>>}]
       ELSE IF \E f \in DOMAIN files : files[f] \notin DOMAIN objs
       THEN [fault |-> TRUE, msgs |-> {<<"Changes from the last commit", 0>>}]
       ELSE IF parent_commit_data = NoData
       THEN [fault |-> FALSE,
             msgs |-> {<<"Changes from the last commit", 0>>,
                       <<"Parent commit not found", 0>>}]
       ELSE IF \/ ~IsJson(parent_commit_data)
               \/ \E f \in DOMAIN files \cap DOMAIN parent_files :
                      parent_files[f] \notin DOMAIN objs
       THEN [fault |-> TRUE, msgs |-> {<<"Changes from the last commit", 0>>}]
       ELSE [fault |-> FALSE,
             msgs |-> {<<"Changes from the last commit", 0>>}
                      \cup UNION {file_diff(objs, files, parent_files, f) :
                                     f \in DOMAIN files}]

show_commit_diff(commit_hash) ==
    /\ repo
    /\ fault' = show_commit_diff_result(objects, commit_hash).fault
    /\ UNCHANGED <<repo, worktree, objects, index, HEAD, commits, procs>>

------------------------------------------------------------------------------
Next ==
    \/ \E p \in Paths, text \in Texts : WriteFile(p, text)
    \/ \E p \in Paths : DeleteFile(p)
    \/ init
    \/ \E paths \in ArgLists : add(paths)
    \/ \E paths \in ArgLists : unstage(paths)
    \/ \E paths \in ArgLists : restore(paths)
    \/ \E message \in Messages : commit(message)
    \/ log
    \/ status
    \/ \E commit_hash \in (DOMAIN objects) \cup {MissingHash} :
           show_commit_diff(commit_hash)

Spec == Init /\ [][Next]_vars

------------------------------------------------------------------------------
\* Two processes on one repository.  Each command is the sequence of its
\* reads and writes of files, one per step, with nothing held between them:
\* the code takes no lock.  The scan at the head of add (three readers) is one
\* step; add_file and commit are split at every file they open.

\* Another process is in the middle of a command.
busy(self) == \E q \in Procs \ {self} : pc[q] # "idle"

\* An initialised repository in a directory whose files exist.
ConcInit ==
    /\ repo = TRUE
    /\ worktree \in [Paths -> Texts]
    /\ objects = EmptyMap
    /\ index = EmptyMap
    /\ HEAD = None
    /\ commits = 0
    /\ fault = FALSE
    /\ pc = [self \in Procs |-> "idle"]
    /\ local = [self \in Procs |-> NoLocals]
    /\ overlapped = FALSE
    /\ lost = FALSE

\* add(<<path>>) up to its call of add_file: the scan finds the path changed or
\* untracked.
AddScan(self, path) ==
    /\ pc[self] = "idle"
    /\ LET c == classify(worktree, objects, index, HEAD)
       IN /\ ~c.fault
          /\ path \in c.tracked_files_with_changes \cup c.untracked_files
    /\ pc' = [pc EXCEPT ![self] = "add_file"]
    /\ local' = [local EXCEPT ![self] = [NoLocals EXCEPT !.path = path]]
    /\ overlapped' = (overlapped \/ busy(self))
    /\ UNCHANGED <<repo, worktree, objects, index, HEAD, commits, fault, lost>>

\* add_file: read the file, write its blob.
AddFileWriteObject(self) ==
    /\ pc[self] = "add_file"
    /\ LET file_data == worktree[local[self].path]
           file_hash == generate_hash(file_data)
       IN /\ objects' = Put(objects, file_hash, file_data)
          /\ local' = [local EXCEPT ![self].file_hash = file_hash]
    /\ pc' = [pc EXCEPT ![self] = "append_read"]
    /\ UNCHANGED <<repo, worktree, index, HEAD, commits, fault, overlapped, lost>>

\* append_to_staging_area: json.load of the index file.
AppendRead(self) ==
    /\ pc[self] = "append_read"
    /\ local' = [local EXCEPT ![self].index = index]
    /\ pc' = [pc EXCEPT ![self] = "append_write"]
    /\ UNCHANGED <<repo, worktree, objects, index, HEAD, commits, fault,
                   overlapped, lost>>

\* append_to_staging_area: json.dump of the index read, with the new entry.
\* An entry the file holds by now and the dumped index does not is lost.
AppendWrite(self) ==
    /\ pc[self] = "append_write"
    /\ LET written == append_to_staging_area(local[self].index, local[self].path,
                                             local[self].file_hash)
       IN /\ index' = written
          /\ lost' = (lost \/ \E q \in DOMAIN index : q \notin DOMAIN written)
    /\ pc' = [pc EXCEPT ![self] = "idle"]
    /\ local' = [local EXCEPT ![self] = NoLocals]
    /\ UNCHANGED <<repo, worktree, objects, HEAD, commits, fault, overlapped>>

\* commit: json.load of the index file.
CommitReadIndex(self) ==
    /\ pc[self] = "idle"
    /\ commits + Cardinality({q \in Procs : pc[q] = "commit_read_head"}) < MaxCommits
    /\ local' = [local EXCEPT ![self] = [NoLocals EXCEPT !.index = index]]
    /\ pc' = [pc EXCEPT ![self] = "commit_read_head"]
    /\ overlapped' = (overlapped \/ busy(self))
    /\ UNCHANGED <<repo, worktree, objects, index, HEAD, commits, fault, lost>>

\* commit: read HEAD and the clock, build the record.
CommitReadHead(self, message) ==
    /\ pc[self] = "commit_read_head"
    /\ local' = [local EXCEPT ![self].commit_text =
                     json_dumps(commit_record(message, commits, local[self].index, HEAD))]
    /\ commits' = commits + 1
    /\ pc' = [pc EXCEPT ![self] = "commit_write"]
    /\ UNCHANGED <<repo, worktree, objects, index, HEAD, fault, overlapped, lost>>

\* commit: write the commit object.
CommitWriteObject(self) ==
    /\ pc[self] = "commit_write"
    /\ objects' = Put(objects, generate_hash(local[self].commit_text),
                      local[self].commit_text)
    /\ pc' = [pc EXCEPT ![self] = "update_head"]
    /\ UNCHANGED <<repo, worktree, index, HEAD, commits, fault, local,
                   overlapped, lost>>

\* commit: update_head.
CommitUpdateHead(self) ==
    /\ pc[self] = "update_head"
    /\ HEAD' = update_head(generate_hash(local[self].commit_text))
    /\ pc' = [pc EXCEPT ![self] = "commit_clear"]
    /\ UNCHANGED <<repo, worktree, objects, index, commits, fault, local,
                   overlapped, lost>>

\* commit: dump the empty index.
CommitClearIndex(self) ==
    /\ pc[self] = "commit_clear"
    /\ index' = EmptyMap
    /\ pc' = [pc EXCEPT ![self] = "idle"]
    /\ local' = [local EXCEPT ![self] = NoLocals]
    /\ UNCHANGED <<repo, worktree, objects, HEAD, commits, fault, overlapped, lost>>

NextConc ==
    \/ \E self \in Procs, path \in Paths : AddScan(self, path)
    \/ \E self \in Procs : AddFileWriteObject(self)
    \/ \E self \in Procs : AppendRead(self)
    \/ \E self \in Procs : AppendWrite(self)
    \/ \E self \in Procs : CommitReadIndex(self)
    \/ \E self \in Procs, message \in Messages : CommitReadHead(self, message)
    \/ \E self \in Procs : CommitWriteObject(self)
    \/ \E self \in Procs : CommitUpdateHead(self)
    \/ \E self \in Procs : CommitClearIndex(self)

SpecConc == ConcInit /\ [][NextConc]_vars

------------------------------------------------------------------------------
\* Shorthands for the properties below.

\* The files of the latest commit, read through HEAD.
latest_files == committed_data_files(objects, HEAD)

\* The step is a commit() that created a commit.
CommitStep == \E message \in Messages : commit(message)

\* The classes of the data model a working file belongs to: staged,
\* tracked-unchanged, tracked-changed, untracked.
classes_of(c, p) ==
    {k \in {"staged", "tracked-unchanged", "tracked-changed", "untracked"} :
        \/ k = "staged" /\ p \in c.staged_files
        \/ k = "tracked-unchanged"
               /\ p \in c.tracked_files \ c.tracked_files_with_changes
        \/ k = "tracked-changed" /\ p \in c.tracked_files_with_changes
        \/ k = "untracked" /\ p \in c.untracked_files}

------------------------------------------------------------------------------
\* C1: a commit() run on an empty Index fails with NothingToCommit: it writes
\* no object and leaves HEAD as it was.
C1_EmptyIndexCommitRejected ==
    [][(index = EmptyMap /\ CommitStep) => (HEAD' = HEAD /\ objects' = objects)]_vars

\* C2: a commit carries the full snapshot: when a non-empty Index is
\* committed, every path of the parent commit's files is in the new commit's
\* files, with the parent's digest unless the path was staged for the new commit.
C2_CommitKeepsParentFiles ==
    [][(index # EmptyMap /\ CommitStep) =>
        \A p \in DOMAIN latest_files :
            /\ p \in DOMAIN committed_data_files(objects', HEAD')
            /\ p \notin DOMAIN index =>
                   committed_data_files(objects', HEAD')[p] = latest_files[p]]_vars

\* C3: whenever the scanner can classify the working tree, every file of the
\* working tree is in exactly one of staged, tracked-unchanged, tracked-changed
\* and untracked.
C3_ExactlyOneClass ==
    (repo /\ ~classify(worktree, objects, index, HEAD).fault) =>
        \A p \in DOMAIN worktree :
            Cardinality(classes_of(classify(worktree, objects, index, HEAD), p)) = 1

\* C4: right after a commit() that created a commit, the Index is empty and
\* HEAD is the digest of the commit object just written, which records the
\* committed Index as its files.
C4_CommitClearsIndexAndSetsHead ==
    [][commits' # commits =>
        /\ index' = EmptyMap
        /\ HEAD' # None
        /\ HEAD' \in DOMAIN objects'
        /\ IsJson(objects'[HEAD'])
        /\ HEAD' = generate_hash(objects'[HEAD'])
        /\ json_loads(objects'[HEAD']).files = index
        /\ \A d \in DOMAIN objects' : d \notin DOMAIN objects => d = HEAD']_vars

\* A commit of a staged file has happened and nothing was staged since.
C4_Witness ==
    /\ commits >= 1
    /\ index = EmptyMap
    /\ HEAD \in DOMAIN objects
    /\ latest_files # EmptyMap

\* C5: after n commits log() prints exactly n commits, starting at HEAD,
\* each followed by its parent, newest first, ending at the commit whose
\* parent is null; with no commit it prints that there are none.
C5_LogVisitsEveryCommit ==
    repo =>
        LET r == log_result(objects, HEAD)
            at(i) == json_loads(objects[r.log[i]])
        IN /\ ~r.fault
           /\ ~r.endless
           /\ Len(r.log) = commits
           /\ (commits = 0) <=>
                  (r.msgs = {<<"Gitto repository does not have any commits yet", 0>>})
           /\ commits > 0 => r.log[1] = HEAD /\ at(commits).parent = None
           /\ \A i \in 1..(commits - 1) :
                  /\ at(i).parent = r.log[i + 1]
                  /\ at(i).timestamp > at(i + 1).timestamp

\* Two commits of staged files have been made and log() prints both.
C5_Witness ==
    /\ commits = 2
    /\ Len(log_result(objects, HEAD).log) = 2
    /\ \A d \in Range(log_result(objects, HEAD).log) :
          json_loads(objects[d]).files # EmptyMap

\* C6: only commit changes HEAD, and only forward: a step that changes HEAD is
\* a commit, its new HEAD names an object that did not exist before, whose
\* parent is the previous HEAD, and that is none of the earlier HEAD values
\* (the commits log() reaches from the previous HEAD).
C6_HeadOnlyAdvancesByCommit ==
    [][HEAD' # HEAD =>
        /\ CommitStep
        /\ HEAD' \notin DOMAIN objects
        /\ HEAD' \in DOMAIN objects'
        /\ json_loads(objects'[HEAD']).parent = HEAD
        /\ HEAD' \notin Range(log_result(objects, HEAD).log) \cup {None}]_vars

\* HEAD has advanced twice, each time to a commit of staged files: the latest
\* commit has a parent commit.
C6_Witness ==
    /\ commits = 2
    /\ HEAD \in DOMAIN objects
    /\ latest_files # EmptyMap
    /\ json_loads(objects[HEAD]).parent \in DOMAIN objects
    /\ json_loads(objects[json_loads(objects[HEAD]).parent]).files # EmptyMap

\* C7: the Object Store only grows: every digest it holds before a step it
\* holds after the step, with the same content.
C7_ObjectStoreAppendOnly ==
    [][\A d \in DOMAIN objects :
          d \in DOMAIN objects' /\ objects'[d] = objects[d]]_vars

\* The store holds a commit, and a blob that neither the Index nor the latest
\* commit refers to any more.
C7_Witness ==
    /\ commits >= 1
    /\ \E d \in DOMAIN objects :
          /\ ~IsJson(objects[d])
          /\ d \notin Range(index)
          /\ d \notin Range(latest_files)

\* C8: two files with the same content that are not staged and not committed
\* are staged by add under their own paths, in one add of both or in one add
\* after the other: the Index then maps both paths to the one digest, which
\* the Object Store holds with that content.
C8_SameContentStagedTwice ==
    repo =>
        \A p \in DOMAIN worktree, q \in DOMAIN worktree :
            ( /\ q # p
              /\ worktree[q] = worktree[p]
              /\ q \notin DOMAIN index
              /\ q \notin DOMAIN latest_files
              /\ ~classify(worktree, objects, index, HEAD).fault )
            => LET both == add_result(worktree, objects, index, HEAD, <<p, q>>)
                   second == add_result(worktree, objects, index, HEAD, <<q>>)
                   staged_as(r) ==
                       /\ {p, q} \subseteq DOMAIN r.index
                       /\ r.index[q] = r.index[p]
                       /\ r.index[q] \in DOMAIN r.objects
                       /\ r.objects[r.index[q]] = worktree[q]
               IN /\ ( /\ p \in classify(worktree, objects, index, HEAD).untracked_files
                       /\ q \in classify(worktree, objects, index, HEAD).untracked_files )
                      => staged_as(both)
                  /\ ( /\ p \in DOMAIN index
                       /\ index[p] = generate_hash(worktree[p]) )
                      => staged_as(second)

\* C9: no command ends in an unhandled exception.
C9_NoUnhandledFault == ~fault

\* C10: unstage(p) after add staged p leaves p out of the Index and every
\* other entry as it was; unstage(p) of a path that is not staged prints that
\* it is not in the staging area and leaves the Index as it is.
C10_UnstageInvertsStage ==
    repo =>
        \A p \in Paths :
            LET a == add_result(worktree, objects, index, HEAD, <<p>>)
                u == unstage_result(a.index, <<p>>)
                n == unstage_result(index, <<p>>)
            IN /\ p \in DOMAIN a.index =>
                      /\ u.index = [q \in (DOMAIN a.index) \ {p} |-> a.index[q]]
                      /\ u.msgs = {<<"unstaged", p>>}
                      /\ p \notin DOMAIN index => u.index = index
               /\ p \notin DOMAIN index =>
                      /\ n.index = index
                      /\ n.msgs = {<<"is not in the staging area", p>>}

\* A file was staged and unstaged again while another file stays staged.
C10_Witness ==
    /\ HEAD = None
    /\ index # EmptyMap
    /\ \E p \in (DOMAIN worktree) \ DOMAIN index :
          generate_hash(worktree[p]) \in DOMAIN objects
          /\ generate_hash(worktree[p]) \notin Range(index)


------------------------------------------------------------------------------
\* The scanner reads every staged and every tracked file: status, add and
\* restore return only when it can.
scan_returns == repo /\ ~classify(worktree, objects, index, HEAD).fault

\* What status() prints about path p.
status_lines(p) ==
    {m \in status_result(worktree, objects, index, HEAD).msgs : m[2] = p}

\* C11: whenever status returns, a path of the latest commit's files that is
\* not in the Index is reported as changed, and not as staged or untracked,
\* when its working-tree content differs from the committed digest; when the
\* content is the same it is tracked without changes and status does not list it.
C11_CommittedFileChangeReported ==
    scan_returns =>
        \A p \in (DOMAIN latest_files) \ DOMAIN index :
            LET c == classify(worktree, objects, index, HEAD)
            IN /\ p \in c.tracked_files
               /\ p \notin c.staged_files
               /\ p \notin c.untracked_files
               /\ IF generate_hash(worktree[p]) # latest_files[p]
                  THEN /\ p \in c.tracked_files_with_changes
                       /\ status_lines(p) = {<<"Changes not staged for commit", p>>}
                  ELSE /\ p \notin c.tracked_files_with_changes
                       /\ status_lines(p) = {}

\* A committed, unstaged file has been rewritten with content the store does
\* not hold, and status returns.
C11_Witness ==
    /\ scan_returns
    /\ \E p \in (DOMAIN latest_files) \ DOMAIN index :
          /\ generate_hash(worktree[p]) # latest_files[p]
          /\ generate_hash(worktree[p]) \notin DOMAIN objects


\* C12: init on an initialized repository leaves HEAD, the Index and every
\* object as they are and prints that the repository is already initialized.
C12_InitIdempotent ==
    [][(repo /\ init) =>
          /\ HEAD' = HEAD
          /\ index' = index
          /\ objects' = objects
          /\ repo'
          /\ init_result(repo, index, HEAD).msgs = {<<"already initialized", 0>>}]_vars

\* A repository with a commit, a staged file and a blob, whose last command
\* raised: init here is a step that changes nothing but that.
C12_Witness ==
    /\ repo
    /\ fault
    /\ HEAD # None
    /\ index # EmptyMap
    /\ latest_files # EmptyMap


\* The commit objects of the store.
commit_hashes == {d \in DOMAIN objects : IsJson(objects[d])}

\* C13: show_commit_diff of a commit B with parent A prints, for every path of
\* B's files, the path and then the lines removed from A's blob and added by
\* B's blob when the path is in A's files, or "New file in this commit" when
\* it is not, and nothing about any other path; for a commit without parent it
\* prints "First commit" only, for a digest without an object "Commit not
\* found" only.  It never raises on these.
C13_ShowDiffReportsEachFile ==
    /\ show_commit_diff_result(objects, MissingHash) =
           [fault |-> FALSE, msgs |-> {<<"Commit not found", 0>>}]
    /\ \A b \in commit_hashes :
          LET r == show_commit_diff_result(objects, b)
              B == json_loads(objects[b])
              A == json_loads(objects[B.parent])
              about(f) == {m \in r.msgs : m[2] = f}
              old(f) == objects[A.files[f]]
              new(f) == objects[B.files[f]]
          IN /\ ~r.fault
             /\ B.parent = None => r.msgs = {<<"First commit", 0>>}
             /\ B.parent # None =>
                   \A f \in Paths :
                       about(f) =
                           IF f \notin DOMAIN B.files THEN {}
                           ELSE IF f \notin DOMAIN A.files
                           THEN {<<"File", f>>, <<"New file in this commit", f>>}
                           ELSE IF old(f) = new(f) THEN {<<"File", f>>}
                           ELSE {<<"File", f>>}
                                \cup {<<"diff", f, <<"-", l>>>> : l \in Range(old(f))}
                                \cup {<<"diff", f, <<"+", l>>>> : l \in Range(new(f))}

\* The latest commit changes one file of its parent and adds another.
C13_Witness ==
    /\ HEAD \in commit_hashes
    /\ json_loads(objects[HEAD]).parent \in commit_hashes
    /\ \E f \in DOMAIN latest_files, g \in DOMAIN latest_files :
          LET A == json_loads(objects[json_loads(objects[HEAD]).parent])
          IN /\ f \in DOMAIN A.files
             /\ A.files[f] # latest_files[f]
             /\ g \notin DOMAIN A.files


\* The staged paths whose working file no longer has the staged digest.
drifted == {p \in (DOMAIN index) \cap DOMAIN worktree :
               generate_hash(worktree[p]) # index[p]}

\* C14: whenever the scanner returns, a staged path whose working-tree content
\* no longer has the staged digest is both staged and tracked-with-changes, and
\* add of that path stages it again: the Index then maps it to the digest of
\* its current content, the Object Store holds that content under the digest,
\* and the other Index entries are as before.
C14_DriftedStagedFileRestaged ==
    scan_returns =>
        \A p \in drifted :
            LET c == classify(worktree, objects, index, HEAD)
                r == add_result(worktree, objects, index, HEAD, <<p>>)
            IN /\ p \in c.staged_files
               /\ p \in c.tracked_files_with_changes
               /\ ~r.fault
               /\ r.msgs = {<<"added to staging area", p>>}
               /\ r.index = [q \in DOMAIN index |->
                                IF q = p THEN generate_hash(worktree[p]) ELSE index[q]]
               /\ generate_hash(worktree[p]) \in DOMAIN r.objects
               /\ r.objects[generate_hash(worktree[p])] = worktree[p]

\* A staged file has been rewritten with content the store does not hold yet,
\* next to another staged file.
C14_Witness ==
    /\ scan_returns
    /\ \E p \in drifted :
          /\ generate_hash(worktree[p]) \notin DOMAIN objects
          /\ (DOMAIN index) \ {p} # {}


\* The paths add() recognises: staged, tracked or untracked.
recognised ==
    LET c == classify(worktree, objects, index, HEAD)
    IN c.staged_files \cup c.tracked_files \cup c.untracked_files

\* C15: whenever the scanner returns, an add whose arguments hold a path other
\* than "." that is not staged, not tracked and not untracked prints that the
\* first such path did not match any files and leaves the Index and the Object
\* Store as they were, whatever the other arguments are.
C15_AddAllOrNothing ==
    scan_returns =>
        \A paths \in ArgLists :
            LET bad == {i \in DOMAIN paths :
                           paths[i] # DOT /\ paths[i] \notin recognised}
                r == add_result(worktree, objects, index, HEAD, paths)
            IN bad # {} =>
                   /\ ~r.fault
                   /\ r.index = index
                   /\ r.objects = objects
                   /\ r.msgs = {<<"did not match any files",
                                  paths[CHOOSE i \in bad : \A j \in bad : i <= j]>>}

\* One path can be staged by add and another is not recognised.
C15_Witness ==
    /\ scan_returns
    /\ classify(worktree, objects, index, HEAD).untracked_files # {}
    /\ Paths \ recognised # {}


\* C16: whenever the scanner returns, restore(p) of a path in
\* tracked_files_with_changes writes the content stored under the latest
\* commit's digest for p to the working file and p is then tracked and without
\* changes; restore(p) of any other path leaves the working tree as it is.
C16_RestoreRewritesChangedFile ==
    scan_returns =>
        \A p \in Paths :
            LET c == classify(worktree, objects, index, HEAD)
                r == restore_result(worktree, objects, index, HEAD, <<p>>)
                after == classify(r.worktree, objects, index, HEAD)
            IN IF p \in c.tracked_files_with_changes
               THEN /\ ~r.fault
                    /\ p \in DOMAIN latest_files
                    /\ r.worktree = Put(worktree, p, objects[latest_files[p]])
                    /\ ~after.fault
                    /\ p \in after.tracked_files \ after.tracked_files_with_changes
               ELSE /\ ~r.fault
                    /\ r.worktree = worktree


\* C17: whenever the scanner returns, add(".") returns too, and afterwards
\* every path that was in tracked_files_with_changes or in untracked_files is in
\* the Index under the digest of its current content, a new scan finds no
\* tracked file with changes and no untracked file, and every Index entry that
\* was not among the changed paths is as it was.
C17_AddAllStagesEveryChange ==
    scan_returns =>
        LET c == classify(worktree, objects, index, HEAD)
            r == add_result(worktree, objects, index, HEAD, <<DOT>>)
            after == classify(worktree, r.objects, r.index, HEAD)
        IN /\ ~r.fault
           /\ \A p \in c.tracked_files_with_changes \cup c.untracked_files :
                  /\ p \in DOMAIN r.index
                  /\ r.index[p] = generate_hash(worktree[p])
           /\ ~after.fault
           /\ after.tracked_files_with_changes = {}
           /\ after.untracked_files = {}
           /\ \A p \in (DOMAIN index) \ c.tracked_files_with_changes :
                  /\ p \in DOMAIN r.index
                  /\ r.index[p] = index[p]

\* A committed file has changed and another file is untracked.
C17_Witness ==
    /\ scan_returns
    /\ LET c == classify(worktree, objects, index, HEAD)
       IN /\ c.tracked_files_with_changes \cap DOMAIN latest_files # {}
          /\ c.untracked_files # {}


\* C18: in every reachable state HEAD is empty or names a commit in the Object
\* Store; the parent of every commit in the store is null or names a commit in
\* the store; the parent chain from HEAD has no cycle; every digest in the Index
\* and in the files of any commit names an object in the store; and log neither
\* meets a missing commit nor runs for ever.
C18_ReferentialIntegrity ==
    /\ HEAD = None \/ HEAD \in commit_hashes
    /\ \A b \in commit_hashes :
           LET c == json_loads(objects[b])
           IN /\ c.parent = None \/ c.parent \in commit_hashes
              /\ \A f \in DOMAIN c.files : c.files[f] \in DOMAIN objects
    /\ \A p \in DOMAIN index : index[p] \in DOMAIN objects
    /\ ~log_result(objects, HEAD).fault
    /\ ~log_result(objects, HEAD).endless
    /\ Len(log_result(objects, HEAD).log)
           = Cardinality(Range(log_result(objects, HEAD).log))

\* Two commits with files, the second on top of the first, and a staged file.
C18_Witness ==
    /\ HEAD \in commit_hashes
    /\ json_loads(objects[HEAD]).parent \in commit_hashes
    /\ json_loads(objects[HEAD]).files # EmptyMap
    /\ json_loads(objects[json_loads(objects[HEAD]).parent]).files # EmptyMap
    /\ index # EmptyMap


\* C19: whenever the scanner returns and p is untracked, add(p) followed by
\* unstage(p) with the content of p unchanged leaves p untracked again, and a
\* second add(p) stages p again.
C19_AddThenUnstageRoundTrip ==
    scan_returns =>
        \A p \in classify(worktree, objects, index, HEAD).untracked_files :
            LET a == add_result(worktree, objects, index, HEAD, <<p>>)
                u == unstage_result(a.index, <<p>>)
                after == classify(worktree, a.objects, u.index, HEAD)
                again == add_result(worktree, a.objects, u.index, HEAD, <<p>>)
            IN /\ p \in DOMAIN a.index
               /\ p \notin DOMAIN u.index
               /\ p \in after.untracked_files
               /\ again.msgs = {<<"added to staging area", p>>}
               /\ p \in DOMAIN again.index


\* No command runs.
AllIdle == \A self \in Procs : pc[self] = "idle"

\* The commits log() reaches from HEAD.
reachable_commits ==
    Range(log_from(objects, HEAD, Cardinality(DOMAIN objects)).log)

\* C20: as long as no command has started while another was running, no index
\* write has dropped an entry written by another command, and between commands
\* every commit of the Object Store is reached from HEAD.  (With commands
\* interleaved both happen: C20_Witness.)
C20_OneAtATimeLosesNothing ==
    ~overlapped =>
        /\ ~lost
        /\ AllIdle => commit_hashes \subseteq reachable_commits

\* Commands overlapped, an index write dropped another process's entry, and two
\* commits record the same parent, one of them not reached from HEAD.
C20_Witness ==
    /\ AllIdle
    /\ overlapped
    /\ lost
    /\ \E a \in commit_hashes, b \in commit_hashes :
           /\ a # b
           /\ json_loads(objects[a]).parent = json_loads(objects[b]).parent
           /\ a \in reachable_commits
           /\ b \notin reachable_commits

====
